---- MODULE Spec2Model ----
(***************************************************************************)
(* Model of the task-manager HTTP API and its client fetch layer.          *)
(*                                                                         *)
(*   src/server/app.js            Express + MongoDB server   ("mongo")     *)
(*   src/unnamed/part_000         Express + Supabase server  ("supabase")  *)
(*   src/client/src/api/tasks.js  client loader (loadTasks)                *)
(*                                                                         *)
(* JavaScript values are written as tokens (TLA+ strings), so that values  *)
(* of different JavaScript types can be compared:                          *)
(*   undefined -> "undefined"     null -> "null"                           *)
(*   true / false -> "true" / "false"                                      *)
(*   a string s -> s between single quotes: "'a'", "''", "'true'"          *)
(*   a number n -> its digits: "1"                                         *)
(*   an ObjectId -> "ObjectId(n)", a Date -> "Date"                        *)
(* Objects are TLA+ records (functions from field names to tokens), and    *)
(* arrays are sequences.                                                   *)
(*                                                                         *)
(* A handler is an async function: it runs up to its store call, is        *)
(* suspended at the await while other requests are handled, and resumes    *)
(* with the store's result to send its response. The action named after a  *)
(* handler is the request up to that await; Resume is a suspended handler  *)
(* resuming. The MongoDB POST handler awaits twice, insertOne and then     *)
(* findOne (PostTask, PostReadBack). A response sent before the first await *)
(* (a missing title, an id new ObjectId rejects) is sent in the handler's  *)
(* own step.                                                               *)
(***************************************************************************)
EXTENDS Integers, Sequences, FiniteSets, TLC

VARIABLES
    backend,   \* which server of the repository was started
    running,   \* whether the server process is alive and listening
    store,     \* the tasks collection / table: primary key -> stored record
    nextId,    \* the next primary key the store generates
    pending,   \* the handlers suspended at an await, each with the result of
               \* its store call; they stay unanswered once the process exits
    resp,      \* the last HTTP exchange: request, status, body
    fault,     \* whether the store call behind the last exchange failed
    loaded     \* what the client's loadTasks delivered on this step, if it ran

vars == <<backend, running, store, nextId, pending, resp, fault, loaded>>

-----------------------------------------------------------------------------
(* Bounds *)

\* Primary keys the store hands out before POST is no longer explored.
MaxTasks == 2
\* Handlers that may be suspended at an await at the same time.
MaxInflight == 1

-----------------------------------------------------------------------------
(* JavaScript values *)

Undefined == "undefined"
Null == "null"
True == "true"
False == "false"
Now == "Date"

\* The string s as a JavaScript string value.
Str(s) == "'" \o s \o "'"

\* The number n as a JavaScript number value.
Num(n) == ToString(n)

\* JavaScript truthiness (the values !x and x || y test).
Truthy(v) == v \notin {Undefined, Null, False, "''", "0"}

\* x || y
Or(x, y) == IF Truthy(x) THEN x ELSE y

\* The primary keys the store generates, in order.
Keys == 1..MaxTasks

\* The ObjectId the MongoDB collection generates for primary key n.
ObjectId(n) == "ObjectId(" \o ToString(n) \o ")"

Numbers == {Num(n) : n \in Keys}
ObjectIds == {ObjectId(n) : n \in Keys}

\* typeof v, for the values of this model.
TypeOf(v) ==
    IF v = Undefined THEN "undefined"
    ELSE IF v \in {True, False} THEN "boolean"
    ELSE IF v \in Numbers THEN "number"
    ELSE IF v \in ObjectIds \cup {Null, Now} THEN "object"
    ELSE "string"

-----------------------------------------------------------------------------
(* Requests *)

\* Request bodies of POST and PUT: a field the JSON body does not carry is
\* undefined after destructuring.
Body(title, description, complete) ==
    [title |-> title, description |-> description, complete |-> complete]

\* req.body when express.json() parsed no body and left it undefined (as
\* Express 5 does; Express 4 sets it to {}): a record, so that it compares
\* with the parsed bodies.
UndefinedBody == [undefined |-> Undefined]
IsUndefined(body) == "undefined" \in DOMAIN body

\* POST bodies: none, no title, an empty title, a title alone, every field.
Bodies ==
    {UndefinedBody,
     Body(Undefined, Undefined, Undefined),
     Body("''", "'d'", Undefined),
     Body("'a'", Undefined, Undefined),
     Body("'b'", "'d'", True)}

\* PUT bodies: none, no field, a title alone.
PutBodies ==
    {UndefinedBody,
     Body(Undefined, Undefined, Undefined),
     Body("'a'", Undefined, Undefined)}

\* ?complete=... of GET /api/tasks: absent, or any string.
CompleteParams == {Undefined, "'true'", "'false'", "'x'"}

NoBody == Body(Undefined, Undefined, Undefined)

\* An :id that is no key of either store: not hex, not a number.
Malformed == "'zz'"

Request(method, id, complete, body) ==
    [method |-> method, id |-> id, complete |-> complete, body |-> body]

\* res.status(status).json(...). kind says what was sent and body holds it as
\* a sequence of objects: the elements of an "array"; the one object of a
\* "task", an "error" ({error}) or a "message" ({message}); nothing for
\* "null" (JSON null) and "empty" (res.json(undefined)).
Response(req, status, kind, body) ==
    [req |-> req, status |-> status, kind |-> kind, body |-> body]

\* res.status(status).json({ error: message })
JsonError(req, status, message) == Response(req, status, "error", <<[error |-> message]>>)

\* res.json({ message: message })
JsonMessage(req, message) == Response(req, 200, "message", <<[message |-> message]>>)

\* The handler threw error after res.status(statusCode) and before sending
\* anything: its promise rejects.
Uncaught(req, statusCode, error) ==
    [req |-> req, status |-> statusCode, kind |-> "uncaught", body |-> <<[thrown |-> error]>>]

\* What becomes of a handler whose promise rejects. The handlers are async
\* functions and the source fixes neither the Express nor the Node version:
\*   "exit"  Express 4 ignores the promise and Node (15 on, by default) ends
\*           the process with code 1 on the unhandled rejection;
\*   "hang"  Express 4 ignores the promise and Node only warns (before 15, or
\*           with --unhandled-rejections=warn): the request stays unanswered;
\*   "next"  Express 5 passes the error to its default error handler, which
\*           answers with a page that is not JSON.
Rejections == {"exit", "hang", "next"}

\* The status of the default error handler's page: the status the handler
\* had set on res when it is an error status, 500 otherwise.
FinalStatus(statusCode) ==
    IF statusCode >= 400 /\ statusCode <= 599 THEN statusCode ELSE 500

\* The exchange of a request whose handler rejected in state thrown; status 0
\* stands for a request left unanswered.
HandlerRejected(thrown, outcome) ==
    IF outcome = "next"
    THEN Response(thrown.req, FinalStatus(thrown.status), "html", <<>>)
    ELSE [thrown EXCEPT !.status = 0]

\* Whether the process is still alive after a handler rejected.
Survives(outcome) == outcome # "exit"

NoResponse == Response(Request("-", Undefined, Undefined, NoBody), 0, "none", <<>>)

StoreError == "'store unavailable'"
\* const { title, description, complete } = req.body with req.body undefined.
TypeError == "'Cannot destructure property title of req.body as it is undefined.'"
ReferenceError == "'ReferenceError: id is not defined'"

Idle == [ran |-> FALSE]

-----------------------------------------------------------------------------
(* Handlers at an await *)

\* A handler suspended at `await <awaits>`: its request, the key insertOne
\* generated (0 when there is none), whether the store call failed, and the
\* response its code sends when it resumes with the call's result. The
\* response of a handler that has yet to make another store call is NoResponse.
Suspended(req, awaits, insertedId, failed, answer) ==
    [req |-> req, awaits |-> awaits, insertedId |-> insertedId,
     failed |-> failed, answer |-> answer]

\* What the client gets of answer: the response itself, or what becomes of
\* the handler's rejected promise.
Sent(answer, outcome) ==
    IF answer.kind = "uncaught" THEN HandlerRejected(answer, outcome) ELSE answer

\* A response sent before the handler's first await.
Send(response) ==
    /\ resp' = response
    /\ fault' = FALSE
    /\ UNCHANGED <<running, pending>>

\* The handler throws before its first await, in state thrown: its promise
\* rejects.
Throw(thrown) ==
    /\ \E outcome \in Rejections :
          /\ resp' = HandlerRejected(thrown, outcome)
          /\ running' = Survives(outcome)
    /\ fault' = FALSE
    /\ UNCHANGED pending

\* The handler p resumes from its await and runs to its end: it sends its
\* response, or throws.
Settle(p) ==
    \E outcome \in Rejections :
        /\ p.answer.kind # "uncaught" => outcome = "hang"
        /\ resp' = Sent(p.answer, outcome)
        /\ running' = (p.answer.kind # "uncaught" \/ Survives(outcome))
        /\ fault' = p.failed

\* The handler p has made its store call and awaits the result, the handlers
\* others being suspended besides it: it stays suspended while other
\* requests are handled, or the result arrives before anything else happens
\* and it resumes at once. Two suspended handlers with the same request and
\* the same result are told apart by nothing and are not started together.
Await(others, p) ==
    \/ /\ Cardinality(others) < MaxInflight
       /\ p \notin others
       /\ pending' = others \cup {p}
       /\ UNCHANGED <<running, resp, fault>>
    \/ /\ p.answer.kind # "none"
       /\ Settle(p)
       /\ pending' = others

\* A suspended handler resumes with the result of its store call.
Resume(p) ==
    /\ running
    /\ p \in pending
    /\ p.answer.kind # "none"
    /\ Settle(p)
    /\ pending' = pending \ {p}
    /\ loaded' = Idle
    /\ UNCHANGED <<backend, store, nextId>>

\* The SIGINT handler of app.js at `await client.close()`; failed: close()
\* rejects.
Closing(failed) ==
    Suspended(Request("SIGINT", Undefined, Undefined, NoBody), "close", 0, failed, NoResponse)

\* The SIGINT handler after client.close(): process.exit(0) when it resolved;
\* when it rejected, the unhandled rejection ends the process, or is only
\* warned about and the process lives on. What is suspended stays unanswered.
Exit(failed) ==
    /\ \E survives \in BOOLEAN :
          /\ survives => failed
          /\ running' = survives
    /\ UNCHANGED <<resp, fault>>

\* SIGINT. app.js calls client.close() and awaits it, requests being served
\* meanwhile, then exits; part_000 installs no handler and the signal ends
\* the process.
Sigint ==
    /\ running
    /\ IF backend = "mongo"
       THEN \E failed \in BOOLEAN :
               \/ /\ Cardinality(pending) < MaxInflight
                  /\ Closing(failed) \notin pending
                  /\ pending' = pending \cup {Closing(failed)}
                  /\ UNCHANGED <<running, resp, fault>>
               \/ /\ Exit(failed)
                  /\ UNCHANGED pending
       ELSE /\ running' = FALSE
            /\ UNCHANGED <<pending, resp, fault>>
    /\ loaded' = Idle
    /\ UNCHANGED <<backend, store, nextId>>

\* The SIGINT handler resumes from await client.close().
SigintExit(p) ==
    /\ running
    /\ p \in pending
    /\ p.awaits = "close"
    /\ Exit(p.failed)
    /\ pending' = pending \ {p}
    /\ loaded' = Idle
    /\ UNCHANGED <<backend, store, nextId>>

-----------------------------------------------------------------------------
(* The store: MongoDB collection "tasks" (app.js) *)

\* The 24-character hex string of primary key n.
Hex(n) == Str("00000000000000000000000" \o ToString(n))

\* doc._id.toString(): the hex string of an ObjectId.
ToHexString(oid) == Hex(CHOOSE n \in Keys : ObjectId(n) = oid)

\* new ObjectId(id) throws a BSONError unless id is a 24-character hex string.
IsHex(id) == \E n \in Keys : Hex(n) = id
BSONError == "'input must be a 24 character hex string, 12 byte Uint8Array, or an integer'"

\* The primary key new ObjectId(id) stands for.
KeyOfHex(id) == CHOOSE n \in Keys : Hex(n) = id

\* The driver serialises an undefined field as null (ignoreUndefined is off).
Bson(v) == IF v = Undefined THEN Null ELSE v

\* The keys of S in ascending order: the order find() returns documents in.
RECURSIVE Ascending(_)
Ascending(S) ==
    IF S = {} THEN <<>>
    ELSE LET m == CHOOSE x \in S : \A y \in S : x <= y
         IN <<m>> \o Ascending(S \ {m})

\* taskCollection.find(query).toArray(); query is "all" or {complete: value}.
Find(st, query) ==
    LET hit == {k \in DOMAIN st : query = "all" \/ st[k].complete = query}
        order == Ascending(hit)
    IN [i \in 1..Len(order) |-> st[order[i]]]

\* A null where a document is expected (a record, so that it compares with documents).
NullDoc == [null |-> Null]
IsNull(doc) == "null" \in DOMAIN doc

\* taskCollection.findOne({_id}): the document, or null.
FindOne(st, k) == IF k \in DOMAIN st THEN st[k] ELSE NullDoc

\* The collection with document doc stored under key k.
Put(st, k, doc) == [j \in DOMAIN st \cup {k} |-> IF j = k THEN doc ELSE st[j]]

\* The collection without key k.
Remove(st, k) == [j \in DOMAIN st \ {k} |-> st[j]]

\* JSON.stringify of an object: undefined properties are dropped, an ObjectId
\* is written as its hex string.
Json(obj) ==
    [f \in {g \in DOMAIN obj : obj[g] # Undefined} |->
        IF obj[f] \in ObjectIds THEN ToHexString(obj[f]) ELSE obj[f]]

\* res.json(value) for a document or null.
JsonKind(doc) == IF IsNull(doc) THEN "null" ELSE "task"
JsonBody(doc) == IF IsNull(doc) THEN <<>> ELSE <<Json(doc)>>

-----------------------------------------------------------------------------
(* app.js *)

\* transformTaskDocument: a copy of doc with id, the string of _id, added.
transformTaskDocument(doc) ==
    IF IsNull(doc) THEN NullDoc
    ELSE [f \in DOMAIN doc \cup {"id"} |->
            IF f = "id" THEN ToHexString(doc._id) ELSE doc[f]]

\* The filter with complete !== "false" in place of complete === "true".
CompleteQueryNotFalse(complete) ==
    IF complete # Undefined
    THEN (IF complete # "'false'" THEN True ELSE False)
    ELSE "all"

\* The store filter of GET /api/tasks: none, or equality on complete with
\* the boolean (complete === "true").
CompleteQuery(complete) ==
    IF complete # Undefined
    THEN (IF complete = "'true'" THEN True ELSE False)
    ELSE "all"

\* The response of GET /api/tasks; failed: find() threw.
GetTasksResponse(st, req, failed) ==
    IF failed
    THEN JsonError(req, 500, StoreError)
    ELSE LET tasks == Find(st, CompleteQuery(req.complete))
         IN Response(req, 200, "array",
                     [i \in 1..Len(tasks) |-> Json(transformTaskDocument(tasks[i]))])

\* GET /api/tasks
GetTasks(complete) ==
    LET req == Request("GET", Undefined, complete, NoBody) IN
    /\ backend = "mongo"
    /\ running
    /\ \E failed \in BOOLEAN :
          Await(pending, Suspended(req, "find", 0, failed,
                                   GetTasksResponse(store, req, failed)))
    /\ loaded' = Idle
    /\ UNCHANGED <<backend, store, nextId>>

\* The response of GET /api/tasks/:id.
GetTaskResponse(st, req, failed) ==
    IF ~IsHex(req.id) \/ failed
    THEN JsonError(req, 500, "'Invalid ID format'")
    ELSE LET task == FindOne(st, KeyOfHex(req.id))
         IN IF IsNull(task)
            THEN JsonError(req, 404, "'Task with ID not found'")
            ELSE Response(req, 200, "task", <<Json(transformTaskDocument(task))>>)

\* GET /api/tasks/:id
GetTask(id) ==
    LET req == Request("GET", id, Undefined, NoBody) IN
    /\ backend = "mongo"
    /\ running
    /\ IF ~IsHex(id)
       THEN Send(GetTaskResponse(store, req, FALSE))
       ELSE \E failed \in BOOLEAN :
               Await(pending, Suspended(req, "findOne", 0, failed,
                                        GetTaskResponse(store, req, failed)))
    /\ loaded' = Idle
    /\ UNCHANGED <<backend, store, nextId>>

\* The document POST /api/tasks inserts.
NewTask(k, body) ==
    [_id |-> ObjectId(k),
     title |-> Bson(body.title),
     description |-> Bson(Or(body.description, "''")),
     complete |-> Bson(Or(body.complete, False)),
     createdAt |-> Now,
     updatedAt |-> Now]

\* if (!title): the body carries no title, or an empty one.
MissingTitle(body) == ~Truthy(body.title)

\* The response of POST /api/tasks to a body without a title.
TitleRequired(req) == JsonError(req, 404, "'Title is required'")

\* The catch block of POST sets status 404 and builds its message from id,
\* which is declared nowhere: res.status(404) has run when the ReferenceError
\* is thrown, nothing is sent, and the handler's promise rejects. Whatever
\* the try block throws gets there: a failed store call, or the TypeError of
\* destructuring an undefined req.body.
PostCatch(req) == Uncaught(req, 404, ReferenceError)

\* The response of POST after findOne({_id: result.insertedId}) on st.
PostResponse(st, req, insertedId, failed) ==
    IF failed
    THEN PostCatch(req)
    ELSE LET insertedTask == FindOne(st, insertedId)
         IN Response(req, 201, JsonKind(insertedTask), JsonBody(insertedTask))

\* POST /api/tasks from the result of insertOne on: findOne on st, its await
\* and the response.
ReadBack(others, st, req, insertedId) ==
    \E failed \in BOOLEAN :
        Await(others, Suspended(req, "findOne", insertedId, failed,
                                PostResponse(st, req, insertedId, failed)))

\* POST /api/tasks up to the await of insertOne, and beyond it when the
\* result arrives at once.
PostTask(body) ==
    LET req == Request("POST", Undefined, Undefined, body) IN
    /\ backend = "mongo"
    /\ running
    /\ loaded' = Idle
    /\ UNCHANGED backend
    /\ IF IsUndefined(body)
       THEN /\ Throw(PostCatch(req))
            /\ UNCHANGED <<store, nextId>>
       ELSE IF MissingTitle(body)
       THEN /\ Send(TitleRequired(req))
            /\ UNCHANGED <<store, nextId>>
       ELSE \/ /\ Await(pending, Suspended(req, "insertOne", 0, TRUE, PostCatch(req)))
               /\ UNCHANGED <<store, nextId>>
            \/ /\ nextId <= MaxTasks
               /\ store' = Put(store, nextId, NewTask(nextId, body))
               /\ nextId' = nextId + 1
               /\ \/ Await(pending, Suspended(req, "insertOne", nextId, FALSE, NoResponse))
                  \/ ReadBack(pending, store', req, nextId)

\* POST /api/tasks resuming with the result of insertOne.
PostReadBack(p) ==
    /\ backend = "mongo"
    /\ running
    /\ p \in pending
    /\ p.awaits = "insertOne"
    /\ p.answer.kind = "none"
    /\ ReadBack(pending \ {p}, store, p.req, p.insertedId)
    /\ loaded' = Idle
    /\ UNCHANGED <<backend, store, nextId>>

\* The $set of PUT /api/tasks/:id applied to doc.
UpdateDoc(doc, body) ==
    [doc EXCEPT !.title = Bson(body.title),
                !.description = Bson(body.description),
                !.complete = Bson(body.complete),
                !.updatedAt = Now]

\* findOneAndUpdate(..., {returnDocument: "after"}): the collection afterwards.
\* The handler uses the result as the document itself (null when none
\* matched), which is what the driver returns from version 6 on.
FindOneAndUpdate(st, k, body) ==
    IF k \in DOMAIN st THEN Put(st, k, UpdateDoc(st[k], body)) ELSE st

\* The response of PUT /api/tasks/:id; after is the collection after the update.
PutTaskResponse(after, req, failed) ==
    IF IsUndefined(req.body)
    THEN JsonError(req, 500, TypeError)
    ELSE IF ~IsHex(req.id)
    THEN JsonError(req, 500, BSONError)
    ELSE IF failed
    THEN JsonError(req, 500, StoreError)
    ELSE LET updatedTask == FindOne(after, KeyOfHex(req.id))
         IN IF IsNull(updatedTask)
            THEN JsonError(req, 404, "'Task with ID not found'")
            ELSE Response(req, 200, "task", <<Json(transformTaskDocument(updatedTask))>>)

\* PUT /api/tasks/:id
PutTask(id, body) ==
    LET req == Request("PUT", id, Undefined, body) IN
    /\ backend = "mongo"
    /\ running
    /\ IF IsUndefined(body) \/ ~IsHex(id)
       THEN /\ Send(PutTaskResponse(store, req, FALSE))
            /\ UNCHANGED store
       ELSE \E failed \in BOOLEAN :
               LET after == IF failed THEN store
                            ELSE FindOneAndUpdate(store, KeyOfHex(id), body)
               IN /\ store' = after
                  /\ Await(pending, Suspended(req, "findOneAndUpdate", 0, failed,
                                              PutTaskResponse(after, req, failed)))
    /\ loaded' = Idle
    /\ UNCHANGED <<backend, nextId>>

\* The response of DELETE /api/tasks/:id; deletedCount is the driver's result.
DeleteTaskResponse(req, deletedCount, failed) ==
    IF ~IsHex(req.id)
    THEN JsonError(req, 500, BSONError)
    ELSE IF failed
    THEN JsonError(req, 500, StoreError)
    ELSE IF deletedCount = 0
    THEN JsonError(req, 404, "'Task with ID not found'")
    ELSE JsonMessage(req, "'Task deleted successfully'")

\* DELETE /api/tasks/:id
DeleteTask(id) ==
    LET req == Request("DELETE", id, Undefined, NoBody) IN
    /\ backend = "mongo"
    /\ running
    /\ IF ~IsHex(id)
       THEN /\ Send(DeleteTaskResponse(req, 0, FALSE))
            /\ UNCHANGED store
       ELSE \E failed \in BOOLEAN :
               LET hit == ~failed /\ KeyOfHex(id) \in DOMAIN store
               IN /\ store' = IF hit THEN Remove(store, KeyOfHex(id)) ELSE store
                  /\ Await(pending, Suspended(req, "deleteOne", 0, failed,
                                              DeleteTaskResponse(req, IF hit THEN 1 ELSE 0, failed)))
    /\ loaded' = Idle
    /\ UNCHANGED <<backend, nextId>>

\* The :id values requests carry: every key's hex string, and a malformed one.
MongoIds == {Hex(n) : n \in Keys} \cup {Malformed}

-----------------------------------------------------------------------------
(* The store: Supabase table "tasks" (part_000) *)
(* The table's schema is not part of the repository. It is taken to be the *)
(* plainest one the handlers work with: an integer identity key id, and    *)
(* nullable columns title, description, complete without defaults.         *)

\* The value a column takes when the inserted row does not name it.
ColumnDefault == Null

\* .eq("id", id): the store casts the string to the key's type and answers
\* with an error when it is not a number.
KeyText(n) == Str(ToString(n))
IsKeyText(id) == \E n \in Keys : KeyText(n) = id
KeyOfText(id) == CHOOSE n \in Keys : KeyText(n) = id

\* The request body goes out as JSON, which drops undefined properties: an
\* insert leaves such a column at its default, an update leaves it alone.
InsertRow(k, fields) ==
    [id |-> Num(k),
     title |-> IF fields.title = Undefined THEN ColumnDefault ELSE fields.title,
     description |-> IF fields.description = Undefined THEN ColumnDefault
                     ELSE fields.description,
     complete |-> IF fields.complete = Undefined THEN ColumnDefault ELSE fields.complete]

UpdateRow(row, fields) ==
    [row EXCEPT !.title = IF fields.title = Undefined THEN @ ELSE fields.title,
                !.description = IF fields.description = Undefined THEN @
                                ELSE fields.description,
                !.complete = IF fields.complete = Undefined THEN @ ELSE fields.complete]

-----------------------------------------------------------------------------
(* part_000 *)

\* The response of GET /api/tasks; failed: the query returned an error.
SbGetTasksResponse(st, req, failed) ==
    IF failed
    THEN JsonError(req, 500, StoreError)
    ELSE LET data == Find(st, CompleteQuery(req.complete))
         IN Response(req, 200, "array", [i \in 1..Len(data) |-> Json(data[i])])

\* GET /api/tasks
SbGetTasks(complete) ==
    LET req == Request("GET", Undefined, complete, NoBody) IN
    /\ backend = "supabase"
    /\ running
    /\ \E failed \in BOOLEAN :
          Await(pending, Suspended(req, "select", 0, failed,
                                   SbGetTasksResponse(store, req, failed)))
    /\ loaded' = Idle
    /\ UNCHANGED <<backend, store, nextId>>

\* The response of GET /api/tasks/:id: .single() is an error unless exactly
\* one row matches.
SbGetTaskResponse(st, req, failed) ==
    LET error == failed \/ ~IsKeyText(req.id) \/ KeyOfText(req.id) \notin DOMAIN st
    IN IF error
       THEN JsonError(req, 404, "'Task with ID not found'")
       ELSE Response(req, 200, "task", <<Json(st[KeyOfText(req.id)])>>)

\* GET /api/tasks/:id
SbGetTask(id) ==
    LET req == Request("GET", id, Undefined, NoBody) IN
    /\ backend = "supabase"
    /\ running
    /\ \E failed \in BOOLEAN :
          Await(pending, Suspended(req, "single", 0, failed,
                                   SbGetTaskResponse(store, req, failed)))
    /\ loaded' = Idle
    /\ UNCHANGED <<backend, store, nextId>>

\* POST and PUT destructure req.body outside any try: with req.body
\* undefined the handler throws a TypeError before it has touched res.
SbBodyError(req) == Uncaught(req, 200, TypeError)

\* The fields POST /api/tasks inserts.
SbNewFields(body) ==
    [title |-> body.title,
     description |-> body.description,
     complete |-> Or(body.complete, False)]

\* The error branch of POST sets status 404 and builds its message from id,
\* which is declared nowhere: res.status(404) has run when the ReferenceError
\* is thrown, nothing is sent, and the handler's promise rejects.
SbPostError(req) == Uncaught(req, 404, ReferenceError)

\* The response of POST /api/tasks; after is the table after the insert.
SbPostTaskResponse(after, req, insertedId, failed) ==
    IF failed
    THEN SbPostError(req)
    ELSE Response(req, 201, "task", <<Json(after[insertedId])>>)

\* POST /api/tasks
SbPostTask(body) ==
    LET req == Request("POST", Undefined, Undefined, body) IN
    /\ backend = "supabase"
    /\ running
    /\ loaded' = Idle
    /\ UNCHANGED backend
    /\ IF IsUndefined(body)
       THEN /\ Throw(SbBodyError(req))
            /\ UNCHANGED <<store, nextId>>
       ELSE IF MissingTitle(body)
       THEN /\ Send(TitleRequired(req))
            /\ UNCHANGED <<store, nextId>>
       ELSE \/ /\ Await(pending, Suspended(req, "insert", 0, TRUE,
                                            SbPostTaskResponse(store, req, 0, TRUE)))
               /\ UNCHANGED <<store, nextId>>
            \/ /\ nextId <= MaxTasks
               /\ store' = Put(store, nextId, InsertRow(nextId, SbNewFields(body)))
               /\ nextId' = nextId + 1
               /\ Await(pending, Suspended(req, "insert", nextId, FALSE,
                                           SbPostTaskResponse(store', req, nextId, FALSE)))

\* An update whose JSON body is {}: every field of the request is undefined.
\* The store then updates, and returns, no row.
EmptyUpdate(fields) ==
    fields.title = Undefined /\ fields.description = Undefined /\ fields.complete = Undefined

\* The table after .update(fields).eq("id", id).
SbUpdate(st, k, fields) ==
    IF k \in DOMAIN st /\ ~EmptyUpdate(fields)
    THEN Put(st, k, UpdateRow(st[k], fields))
    ELSE st

\* The response of PUT /api/tasks/:id; after is the table after the update,
\* and data[0] is undefined when no row was updated.
SbPutTaskResponse(after, req, failed) ==
    IF failed \/ ~IsKeyText(req.id)
    THEN JsonError(req, 500, StoreError)
    ELSE IF KeyOfText(req.id) \in DOMAIN after /\ ~EmptyUpdate(req.body)
    THEN Response(req, 200, "task", <<Json(after[KeyOfText(req.id)])>>)
    ELSE Response(req, 200, "empty", <<>>)

\* PUT /api/tasks/:id
SbPutTask(id, body) ==
    LET req == Request("PUT", id, Undefined, body) IN
    /\ backend = "supabase"
    /\ running
    /\ IF IsUndefined(body)
       THEN /\ Throw(SbBodyError(req))
            /\ UNCHANGED store
       ELSE \E failed \in BOOLEAN :
               LET after == IF IsKeyText(id) /\ ~failed
                            THEN SbUpdate(store, KeyOfText(id), body)
                            ELSE store
               IN /\ store' = after
                  /\ Await(pending, Suspended(req, "update", 0, failed,
                                              SbPutTaskResponse(after, req, failed)))
    /\ loaded' = Idle
    /\ UNCHANGED <<backend, nextId>>

\* The response of DELETE /api/tasks/:id.
SbDeleteTaskResponse(req, failed) ==
    IF failed \/ ~IsKeyText(req.id)
    THEN JsonError(req, 500, StoreError)
    ELSE JsonMessage(req, "'Task deleted successfully'")

\* DELETE /api/tasks/:id
SbDeleteTask(id) ==
    LET req == Request("DELETE", id, Undefined, NoBody) IN
    /\ backend = "supabase"
    /\ running
    /\ \E failed \in BOOLEAN :
          LET hit == IsKeyText(id) /\ ~failed /\ KeyOfText(id) \in DOMAIN store
          IN /\ store' = IF hit THEN Remove(store, KeyOfText(id)) ELSE store
             /\ Await(pending, Suspended(req, "delete", 0, failed,
                                         SbDeleteTaskResponse(req, failed)))
    /\ loaded' = Idle
    /\ UNCHANGED <<backend, nextId>>

\* The :id values requests carry: every key's digits, and a malformed one.
SbIds == {KeyText(n) : n \in Keys} \cup {Malformed}

-----------------------------------------------------------------------------
(* client/src/api/tasks.js *)

\* url.searchParams.get('complete') is null when the parameter is absent;
\* otherwise the endpoint carries ?complete=<value>.
SearchParams == {Null, "'true'", "'x'"}
EndpointQuery(complete) == IF complete # Null THEN complete ELSE Undefined

\* response.ok
Ok(response) == response.status >= 200 /\ response.status <= 299

\* The try block of loadTasks. net: "rejected" when fetch rejects (network
\* failure), "answered" otherwise; parses: whether response.json() succeeds.
\* The block either throws or returns the parsed body.
LoadTasksTry(net, response, parses) ==
    IF net = "rejected" THEN [threw |-> TRUE, value |-> <<>>]
    ELSE IF ~Ok(response) THEN [threw |-> TRUE, value |-> <<>>]
    ELSE IF ~parses THEN [threw |-> TRUE, value |-> <<>>]
    ELSE [threw |-> FALSE, value |-> response.body]

\* loadTasks without its catch: what the try block throws reaches the caller.
loadTasksRethrow(net, response, parses) ==
    LET tried == LoadTasksTry(net, response, parses)
    IN IF tried.threw
       THEN [settled |-> "rejected", value |-> <<>>]
       ELSE [settled |-> "resolved", value |-> tried.value]

\* loadTasks: how the promise settles, and with what.
loadTasks(net, response, parses) ==
    LET tried == LoadTasksTry(net, response, parses)
    IN IF tried.threw
       THEN [settled |-> "resolved", value |-> <<>>]
       ELSE [settled |-> "resolved", value |-> tried.value]

\* The exchange of a fetch that rejected: the request got no response.
Rejected(req) == [req |-> req, status |-> 0, kind |-> "rejected", body |-> <<>>]

\* A call of loadTasks settles. Its fetch was answered, by the response the
\* server sent last to this request, or rejected (the server is down or out
\* of reach) and has no body to parse.
LoadTasks(complete) ==
    \E net \in {"rejected", "answered"}, parses \in BOOLEAN :
        LET req == Request("GET", Undefined, EndpointQuery(complete), NoBody)
            response == IF net = "answered" THEN resp ELSE Rejected(req)
        IN /\ net = "rejected" => ~parses
           /\ net = "answered" => (resp.req = req /\ resp.status # 0)
           /\ resp' = response
           /\ fault' = (net = "answered" /\ fault)
           /\ loaded' = [ran |-> TRUE, net |-> net, parses |-> parses,
                         result |-> loadTasks(net, response, parses)]
           /\ UNCHANGED <<backend, running, store, nextId, pending>>

-----------------------------------------------------------------------------
(* The system *)

\* startServer listens once client.connect() has resolved, and only logs
\* when it rejects; part_000 listens unless createClient or listen throws.
\* Either server starts with an empty store or does not start.
Init ==
    /\ backend \in {"mongo", "supabase"}
    /\ running \in BOOLEAN
    /\ store = <<>>
    /\ nextId = 1
    /\ pending = {}
    /\ resp = NoResponse
    /\ fault = FALSE
    /\ loaded = Idle

Next ==
    \/ \E complete \in CompleteParams : GetTasks(complete)
    \/ \E id \in MongoIds : GetTask(id)
    \/ \E body \in Bodies : PostTask(body)
    \/ \E p \in pending : PostReadBack(p)
    \/ \E id \in MongoIds, body \in PutBodies : PutTask(id, body)
    \/ \E id \in MongoIds : DeleteTask(id)
    \/ \E complete \in CompleteParams : SbGetTasks(complete)
    \/ \E id \in SbIds : SbGetTask(id)
    \/ \E body \in Bodies : SbPostTask(body)
    \/ \E id \in SbIds, body \in PutBodies : SbPutTask(id, body)
    \/ \E id \in SbIds : SbDeleteTask(id)
    \/ \E p \in pending : Resume(p)
    \/ Sigint
    \/ \E p \in pending : SigintExit(p)

\* The servers, with requests from any client.
Spec == Init /\ [][Next]_vars

ClientNext ==
    \/ Next
    \/ \E complete \in SearchParams : LoadTasks(complete)

\* The servers with the client's loader reading lists from them.
ClientSpec == Init /\ [][ClientNext]_vars

-----------------------------------------------------------------------------
(* Properties *)

IsClientError(status) == status >= 400 /\ status <= 499
IsSuccess(status) == status >= 200 /\ status <= 299

\* The handler this step left suspended, if it left one.
Started == pending' \ pending

\* The response of the request this step handled: the one sent in the step,
\* or the one its handler, suspended by the step, sends when it resumes.
Reply == IF Started = {} THEN resp' ELSE (CHOOSE p \in Started : TRUE).answer

\* Whether the store call of the request this step handled failed.
ReplyFailed == IF Started = {} THEN fault' ELSE (CHOOSE p \in Started : TRUE).failed

\* The primary key of a task in a response body: from id, which the MongoDB
\* server derives from _id and the Supabase table stores.
BodyKey(task) ==
    IF backend = "mongo" THEN KeyOfHex(task.id)
    ELSE CHOOSE n \in Keys : Num(n) = task.id

\* The primary keys of the tasks of an array body.
BodyKeys(body) == {BodyKey(body[i]) : i \in 1..Len(body)}

\* The primary key of the task a POST response carries: from _id (MongoDB)
\* or id (Supabase).
CreatedKey(task) ==
    IF "_id" \in DOMAIN task THEN KeyOfHex(task._id)
    ELSE CHOOSE n \in Keys : Num(n) = task.id

\* The task the last response carries is still stored under key k as the
\* response shows it: no request has written to it since.
Unwritten(k) ==
    /\ k \in DOMAIN store
    /\ \/ resp.body[1] = Json(store[k])
       \/ backend = "mongo" /\ resp.body[1] = Json(transformTaskDocument(store[k]))

\* C1: after a POST answered 201, a GET of the created task issued
\* immediately afterwards returns a body whose id equals the id field of the
\* POST response and whose title, description and complete are identical.
C1_PostThenGet ==
    [][\A k \in Keys :
          (/\ resp.req.method = "POST"
           /\ resp.status = 201
           /\ resp.kind = "task"
           /\ CreatedKey(resp.body[1]) = k
           /\ Unwritten(k)
           /\ (GetTask(Hex(k)) \/ SbGetTask(KeyText(k)))
           /\ Reply.status = 200)
          => /\ "id" \in DOMAIN resp.body[1]
             /\ Reply.body[1].id = resp.body[1].id
             /\ Reply.body[1].title = resp.body[1].title
             /\ Reply.body[1].description = resp.body[1].description
             /\ Reply.body[1].complete = resp.body[1].complete]_vars

\* C2: every task object app.js sends in a success response, whatever the
\* endpoint, has an id field that is a string derived from the primary key.
C2_StringId ==
    (backend = "mongo" /\ IsSuccess(resp.status) /\ resp.kind \in {"task", "array"})
    => \A i \in 1..Len(resp.body) :
          /\ "id" \in DOMAIN resp.body[i]
          /\ TypeOf(resp.body[i].id) = "string"
          /\ resp.body[i].id = resp.body[i]._id

\* C3: a GET, PUT or DELETE on /api/tasks/:id whose id is malformed for the
\* store's key type is answered with a 4xx status and leaves the store
\* unchanged.
C3_MalformedIdIsClientError ==
    [][(\/ GetTask(Malformed)
        \/ DeleteTask(Malformed)
        \/ \E body \in PutBodies : PutTask(Malformed, body)
        \/ SbGetTask(Malformed)
        \/ SbDeleteTask(Malformed)
        \/ \E body \in PutBodies : SbPutTask(Malformed, body))
       => /\ IsClientError(Reply.status)
          /\ store' = store]_vars

\* The title a POST handler gets from body: none from an undefined body.
TitleOf(body) == IF IsUndefined(body) THEN Undefined ELSE body.title

\* C4: a POST whose title is missing or empty creates no record (the store
\* is the same before and after the request) and is answered with a 4xx
\* status and the error message "Title is required".
C4_MissingTitleRejected ==
    [][\A body \in Bodies :
          (/\ ~Truthy(TitleOf(body))
           /\ (PostTask(body) \/ SbPostTask(body)))
          => /\ store' = store
             /\ Started = {}
             /\ resp'.req.method = "POST"
             /\ resp'.req.body = body
             /\ IsClientError(resp'.status)
             /\ resp'.kind = "error"
             /\ resp'.body = <<[error |-> "'Title is required'"]>>]_vars

\* What GET /api/tasks?complete=c must return from store st: every task when
\* c is absent, those with complete === true when c is "true", those with
\* complete === false for any other value.
ListedKeys(st, c) ==
    IF c = Undefined THEN DOMAIN st
    ELSE IF c = "'true'" THEN {k \in DOMAIN st : st[k].complete = True}
    ELSE {k \in DOMAIN st : st[k].complete = False}

\* C6: GET /api/tasks answers 200 with an array holding all stored tasks when
\* complete is absent, only the tasks with complete === true when it is the
\* literal "true", and only those with complete === false for any other value.
C6_ListFilter ==
    [][\A c \in CompleteParams :
          (/\ ~ReplyFailed
           /\ Reply.req.method = "GET"
           /\ Reply.req.id = Undefined
           /\ Reply.req.complete = c
           /\ (GetTasks(c) \/ SbGetTasks(c)))
          => /\ Reply.status = 200
             /\ Reply.kind = "array"
             /\ BodyKeys(Reply.body) = ListedKeys(store, c)
             /\ Len(Reply.body) = Cardinality(ListedKeys(store, c))
             /\ \A i \in 1..Len(Reply.body) :
                   /\ c = "'true'" => Reply.body[i].complete = True
                   /\ c \notin {Undefined, "'true'"} => Reply.body[i].complete = False]_vars

\* A list filtered with an unrecognised value returned a task while the store
\* also held a completed one and one whose complete is null.
C6_Witness ==
    /\ resp.req.method = "GET"
    /\ resp.req.id = Undefined
    /\ resp.req.complete = "'x'"
    /\ resp.kind = "array"
    /\ Len(resp.body) = 1
    /\ Cardinality(DOMAIN store) = 2
    /\ \E k \in DOMAIN store : store[k].complete # False

\* C5: when the store call of a handler fails, the handler answers with
\* status 500 and the body { error: <the underlying error message> }; no
\* failure leaves the handler without a response.
C5_StoreFailureIs500 ==
    fault => /\ resp.status = 500
             /\ resp.kind = "error"
             /\ resp.body = <<[error |-> StoreError]>>

\* What a stored field reads as after a PUT that sent v: the value, or null
\* for a field the body omitted.
PutValue(v) == IF v = Undefined THEN Null ELSE v

\* The task of response get carries exactly the fields of the PUT request put.
ReflectsPut(put, get) ==
    /\ get.body[1].title = PutValue(put.req.body.title)
    /\ get.body[1].description = PutValue(put.req.body.description)
    /\ get.body[1].complete = PutValue(put.req.body.complete)

\* C7: after a PUT on an existing task answered 200, a GET on the same id
\* with no write in between returns exactly the title, description and
\* complete the PUT body sent (omitted fields overwritten, not kept) under
\* the same id.
C7_PutThenGet ==
    [][/\ \A id \in MongoIds \ {Malformed} :
             (/\ resp.req.method = "PUT" /\ resp.req.id = id
              /\ resp.status = 200 /\ resp.kind = "task"
              /\ Unwritten(KeyOfHex(id))
              /\ GetTask(id) /\ Reply.status = 200)
             => (ReflectsPut(resp, Reply) /\ Reply.body[1].id = id)
       /\ \A id \in SbIds \ {Malformed} :
             (/\ resp.req.method = "PUT" /\ resp.req.id = id
              /\ resp.status = 200 /\ resp.kind = "task"
              /\ Unwritten(KeyOfText(id))
              /\ SbGetTask(id) /\ Reply.status = 200)
             => (ReflectsPut(resp, Reply) /\ Reply.body[1].id = Num(KeyOfText(id)))]_vars

\* C8: a GET, PUT or DELETE whose well-formed id has no record in the store
\* (never created, or already deleted) is answered with 404 and leaves the
\* store unchanged.
C8_AbsentIs404 ==
    [][/\ \A id \in MongoIds \ {Malformed} :
             (/\ KeyOfHex(id) \notin DOMAIN store
              /\ (GetTask(id) \/ DeleteTask(id) \/ \E body \in PutBodies : PutTask(id, body))
              /\ ~ReplyFailed)
             => (Reply.status = 404 /\ store' = store)
       /\ \A id \in SbIds \ {Malformed} :
             (/\ KeyOfText(id) \notin DOMAIN store
              /\ (SbGetTask(id) \/ SbDeleteTask(id) \/ \E body \in PutBodies : SbPutTask(id, body))
              /\ ~ReplyFailed)
             => (Reply.status = 404 /\ store' = store)]_vars

\* C9: loadTasks never rejects; it resolves to the server's array when the
\* fetch was answered with a 2xx status and a body that parses, and to an
\* empty array when the fetch rejected, the status was not 2xx or the body
\* could not be parsed.
C9_LoadTasksNeverThrows ==
    loaded.ran
    => /\ loaded.result.settled = "resolved"
       /\ IF loaded.net = "answered" /\ IsSuccess(resp.status) /\ loaded.parses
          THEN loaded.result.value = resp.body
          ELSE loaded.result.value = <<>>

\* loadTasks resolved to an empty array on a 500 from a server that holds tasks.
C9_Witness ==
    /\ loaded.ran
    /\ loaded.net = "answered"
    /\ resp.status = 500
    /\ loaded.result.value = <<>>
    /\ DOMAIN store # {}

\* C10: under any interleaving, every 201 of POST in app.js carries the task
\* this POST created: a record with the generated id, the submitted title,
\* description defaulted to "" and complete defaulted to false.
C10_PostAnswersCreatedTask ==
    (backend = "mongo" /\ resp.req.method = "POST" /\ resp.status = 201)
    => /\ resp.kind = "task"
       /\ "_id" \in DOMAIN resp.body[1]
       /\ resp.body[1].title = resp.req.body.title
       /\ resp.body[1].description = Or(resp.req.body.description, "''")
       /\ resp.body[1].complete = Or(resp.req.body.complete, False)

====
